---- MODULE Spec2Model ----
(***************************************************************************)
(* Heat-sheet generator (src/gen.py): entry parsing, heat partitioning,    *)
(* mark synthesis and formatting, and the running event schedule.          *)
(*                                                                         *)
(* Conventions                                                             *)
(*   - A Python str is a sequence of one-character strings.                *)
(*   - A seed time or mark is an integer number of thousandths (of a       *)
(*     second or of a metre): 187.36 is 187360, the 60 of format_seed_time *)
(*     is 60000.  The sampled values are eighths (exact in binary floating *)
(*     point, so that a rounding tie is a real tie) or values that are not *)
(*     on a rounding boundary.                                             *)
(*   - A clock time is a number of minutes since midnight of the meet day. *)
(***************************************************************************)
EXTENDS Integers, Sequences, FiniteSets, TLC

(***************************************************************************)
(* Text                                                                    *)
(***************************************************************************)
DigitChars == <<"0", "1", "2", "3", "4", "5", "6", "7", "8", "9">>

Digit(d) == DigitChars[d + 1]

\* str(n) / f"{n}" of a non-negative integer
RECURSIVE IntStr(_)
IntStr(n) == IF n < 10 THEN <<Digit(n)>> ELSE IntStr(n \div 10) \o <<Digit(n % 10)>>

\* The hundredths of a value given in thousandths, ties to the even hundredth
\* (what the "f" presentation type does with a value that is exactly a tie).
RoundHundredths(v) ==
    LET q == v \div 10
        r == v % 10
    IN  IF r < 5 THEN q
        ELSE IF r > 5 THEN q + 1
        ELSE IF q % 2 = 0 THEN q ELSE q + 1

\* f"{v:.2f}" for v >= 0
Fixed2(v) ==
    LET h == RoundHundredths(v)
    IN  IntStr(h \div 100) \o <<".", Digit((h \div 10) % 10), Digit(h % 10)>>

\* f"{t:04.1f}" for a value of t tenths, t >= 0: one decimal, zero-padded to width 4
Fixed1Width4(t) ==
    LET body == IntStr(t \div 10) \o <<".", Digit(t % 10)>>
    IN  IF Len(body) < 4 THEN [i \in 1..(4 - Len(body)) |-> "0"] \o body ELSE body

\* format_seed_time as it would be with round() in place of math.floor
format_seed_time_rounding(seed_time, average) ==
    IF average < 60000
    THEN Fixed2(seed_time)
    ELSE IntStr(seed_time \div 60000) \o <<":">> \o Fixed1Width4(((seed_time % 60000) + 50) \div 100)

format_seed_time(seed_time, average) ==
    IF average < 60000
    THEN Fixed2(seed_time)
    ELSE LET truncated_seconds == ((seed_time % 60000) * 10) \div 1000   \* in tenths
         IN  IntStr(seed_time \div 60000) \o <<":">> \o Fixed1Width4(truncated_seconds)

(***************************************************************************)
(* Reading a mark back                                                     *)
(***************************************************************************)
DigitValue(c) == CHOOSE d \in 0..9 : DigitChars[d + 1] = c

IsDigits(s) == \A i \in 1..Len(s) : \E d \in 0..9 : DigitChars[d + 1] = s[i]

RECURSIVE ParseInt(_)
ParseInt(s) == IF Len(s) = 0 THEN 0
               ELSE 10 * ParseInt(SubSeq(s, 1, Len(s) - 1)) + DigitValue(s[Len(s)])

IndexOf(s, c) == IF \E i \in 1..Len(s) : s[i] = c
                 THEN CHOOSE i \in 1..Len(s) : s[i] = c /\ \A j \in 1..(i - 1) : s[j] # c
                 ELSE 0

Before(s, c) == SubSeq(s, 1, IndexOf(s, c) - 1)
After(s, c) == SubSeq(s, IndexOf(s, c) + 1, Len(s))

RECURSIVE Pow10(_)
Pow10(k) == IF k = 0 THEN 1 ELSE 10 * Pow10(k - 1)

\* "12.34" -> 12340 (thousandths); at most three decimals
ParseDecimal(s) ==
    LET frac == After(s, ".")
    IN  ParseInt(Before(s, ".")) * 1000 + ParseInt(frac) * Pow10(3 - Len(frac))

\* a formatted mark as thousandths: "m:ss.d" is m * 60 + ss.d, anything else a decimal
ParseMark(s) ==
    IF IndexOf(s, ":") > 0
    THEN ParseInt(Before(s, ":")) * 60000 + ParseDecimal(After(s, ":"))
    ELSE ParseDecimal(s)

(***************************************************************************)
(* State                                                                   *)
(***************************************************************************)
VARIABLES
    \* format_seed_time called on its own
    seed_time,        \* argument seed_time
    average,          \* argument average
    formatted,        \* its return value, the empty string before the call
    \* make_heats called on one entrant list
    original,         \* the entrant list as the caller first built it
    entries,          \* the list object passed as `entries` (shuffled in place)
    max_heat_size,    \* argument max_heat_size
    avg,              \* argument avg
    std_dev,          \* argument std_dev
    is_run,           \* argument is_run
    rng_pos,          \* draws taken from the global generator since random.seed
    rng_tape,         \* the outputs the seeded generator has produced so far
    runs,             \* one record per finished make_heats call
    \* the configuration and the EventDef objects
    events,           \* the list `events`: EventDef objects, by identity
    event_entries,    \* EventDef.entries of every EventDef object
    \* parse_entries
    rows,             \* the rows csv.DictReader yields
    name_map,         \* argument name_map
    event_map,        \* argument event_map
    stdout,           \* what parse_entries has printed
    parsed,           \* parse_entries has returned
    \* generate_heat_sheet, called by __main__ inside open("heat_sheet.tex", "w")
    start_time,       \* the local start_time
    proc_events,      \* the local proc_events
    pc,               \* "main", "loop", "returned", "raised" or "written"
    heat_sheet_tex    \* the output file: "absent", "empty" or "document"

fmtVars == <<seed_time, average, formatted>>
heatVars == <<original, entries, max_heat_size, avg, std_dev, is_run, rng_pos, rng_tape, runs>>
parseVars == <<rows, name_map, event_map, stdout, parsed>>
sheetVars == <<start_time, proc_events, pc, heat_sheet_tex>>
vars == <<fmtVars, heatVars, events, event_entries, parseVars, sheetVars>>

(***************************************************************************)
(* Bounds and sampled inputs                                               *)
(***************************************************************************)
MaxEighths == 24      \* format_seed_time is tried on 0, 1/8, ..., MaxEighths/8 seconds
MaxEntrants == 3      \* longest entrant list given to make_heats
MaxHeatSize == 3      \* largest max_heat_size given to make_heats

\* means on both sides of the 60 s boundary (59.9 and 60.0 are the documented ones)
Averages == {3000, 59900, 60000, 200000}

FormatValues ==
    {125 * k : k \in 0..MaxEighths}
        \cup {59875, 59990, 60000, 60125, 119875, 187360, 187375, 599875, 3599875}

\* outcomes of random.gauss: a negative one and one on each side of a minute
Samples == {-3000, 59875, 60125}

LOSHA == [name |-> "Aleksei Seletskiy", team |-> "Gary"]
NICO == [name |-> "Nicolo Fasanelli", team |-> "Tim"]
SEAN == [name |-> "Sean Dutton", team |-> "Tim"]

\* entrant lists are the prefixes of this one (an athlete may be entered twice)
Lineup == <<LOSHA, NICO, LOSHA, SEAN, NICO, SEAN, LOSHA>>

(***************************************************************************)
(* The global generator of the random module                               *)
(*                                                                         *)
(* A seeded generator is a fixed but unknown stream: rng_tape holds the    *)
(* part of the stream seen so far and rng_pos the number of draws taken    *)
(* since random.seed.  A draw past the end of the tape may be any value    *)
(* and extends the tape; a draw inside it repeats what the tape holds.     *)
(***************************************************************************)
\* draws one make_heats call takes for n entrants: n - 1 by shuffle, n by gauss
DrawCount(n) == IF n = 0 THEN 0 ELSE 2 * n - 1

\* what n entrants can draw from an unconstrained generator: the index chosen by
\* shuffle for i = n-1, ..., 1 (randbelow(i + 1)), then n outcomes of gauss
FreshDraws(n, samples) ==
    IF n = 0 THEN {<<>>}
    ELSE {js \o zs : js \in {f \in [1..(n - 1) -> 0..(n - 1)] : \A k \in 1..(n - 1) : f[k] <= n - k},
                     zs \in [1..n -> samples]}

Draws(n, pos, tape) ==
    IF pos + DrawCount(n) <= Len(tape)
    THEN {SubSeq(tape, pos + 1, pos + DrawCount(n))}
    ELSE {d \in FreshDraws(n, Samples) : \A k \in 1..DrawCount(n) : pos + k <= Len(tape) => d[k] = tape[pos + k]}

TapeAfter(pos, tape, d) ==
    IF pos + Len(d) <= Len(tape) THEN tape ELSE SubSeq(tape, 1, pos) \o d

(***************************************************************************)
(* make_heats                                                              *)
(***************************************************************************)
\* x[i], x[j] = x[j], x[i] (0-based i, j)
Swap(x, i, j) == [x EXCEPT ![i + 1] = x[j + 1], ![j + 1] = x[i + 1]]

\* random.shuffle(x): for i in reversed(range(1, len(x))): swap x[i], x[randbelow(i+1)];
\* js[k] is the index drawn in the k-th iteration
RECURSIVE ShuffleFrom(_, _, _)
ShuffleFrom(x, k, js) ==
    IF k > Len(js) THEN x
    ELSE ShuffleFrom(Swap(x, Len(x) - k, js[k]), k + 1, js)

\* a shuffle that copies instead of swapping
Shuffle_copying(x, js) == IF Len(x) >= 2 THEN [x EXCEPT ![2] = x[1]] ELSE x

Shuffle(x, js) == ShuffleFrom(x, 1, js)

RECURSIVE InsertSorted(_, _)
InsertSorted(s, v) ==
    IF Len(s) = 0 THEN <<v>>
    ELSE IF v <= Head(s) THEN <<v>> \o s
    ELSE <<Head(s)>> \o InsertSorted(Tail(s), v)

RECURSIVE SortAscending(_)
SortAscending(s) == IF Len(s) = 0 THEN <<>> ELSE InsertSorted(SortAscending(Tail(s)), Head(s))

Reverse(s) == [i \in 1..Len(s) |-> s[Len(s) + 1 - i]]

\* make_heats with the sort left out
SortTimes_unsorted(times, run) == times

\* times.sort() for a timed kind, times.sort(reverse=True) for a measured one
SortTimes(times, run) == IF run THEN SortAscending(times) ELSE Reverse(SortAscending(times))

Max(a, b) == IF a >= b THEN a ELSE b
Min(a, b) == IF a <= b THEN a ELSE b

\* the mark of one entrant
FormatMark(mark, a, run) == IF run THEN format_seed_time(mark, a) ELSE Fixed2(mark)

\* the loop that stops before a last, shorter heat
RECURSIVE HeatLoop_full_only(_, _, _, _, _, _)
HeatLoop_full_only(i, shuffled, times, size, a, run) ==
    IF i + size > Len(shuffled) THEN <<>>
    ELSE <<[k \in 1..size |-> <<shuffled[i + k], FormatMark(times[k], a, run)>>]>>
             \o HeatLoop_full_only(i + size, shuffled, SubSeq(times, size + 1, Len(times)), size, a, run)

\* for i in range(0, len(entries), max_heat_size), for size > 0: one heat per i, its
\* members entries[i .. min(i + size, len) - 1], each with the next mark popped off times
RECURSIVE HeatLoop(_, _, _, _, _, _)
HeatLoop(i, shuffled, times, size, a, run) ==
    IF i >= Len(shuffled) THEN <<>>
    ELSE LET count == Min(i + size, Len(shuffled)) - i
             heat == [k \in 1..count |-> <<shuffled[i + k], FormatMark(times[k], a, run)>>]
         IN  <<heat>> \o HeatLoop(i + size, shuffled, SubSeq(times, count + 1, Len(times)), size, a, run)

\* make_heats(entries, max_heat_size, avg, std_dev, is_run) with the draws d it takes:
\* the list as it leaves it, the heats it returns, and whether range() raised
\* ValueError (a step of 0); a negative step is an empty range
make_heats(list, size, a, sd, run, d) ==
    LET n == Len(list)
        shuffled == Shuffle(list, SubSeq(d, 1, n - 1))
        times == SortTimes([k \in 1..n |-> Max(0, d[DrawCount(n) - n + k])], run)
    IN  [entries |-> shuffled,
         raised |-> (size = 0),
         heats |-> IF size > 0 THEN HeatLoop(0, shuffled, times, size, a, run) ELSE <<>>]

(***************************************************************************)
(* format_seed_time on its own                                             *)
(***************************************************************************)
IdleFormat == seed_time = 0 /\ average = 0 /\ formatted = <<>>

IdleHeats ==
    /\ original = <<>> /\ entries = <<>> /\ max_heat_size = 1 /\ avg = 0 /\ std_dev = 0
    /\ is_run = TRUE /\ rng_pos = 0 /\ rng_tape = <<>> /\ runs = <<>>

IdleSheet == start_time = 0 /\ proc_events = <<>> /\ pc = "main" /\ heat_sheet_tex = "absent"

IdleMeet ==
    /\ events = <<>> /\ event_entries = <<>>
    /\ rows = <<>> /\ name_map = <<>> /\ event_map = <<>> /\ stdout = <<>> /\ parsed = FALSE
    /\ IdleSheet

meetVars == <<events, event_entries, parseVars, sheetVars>>

InitFormat ==
    /\ seed_time \in FormatValues
    /\ average \in Averages
    /\ formatted = <<>>
    /\ IdleHeats
    /\ IdleMeet

FormatSeedTime ==
    /\ formatted = <<>>
    /\ formatted' = format_seed_time(seed_time, average)
    /\ UNCHANGED <<seed_time, average, heatVars, meetVars>>

NextFormat == FormatSeedTime

SpecFormat == InitFormat /\ [][NextFormat]_vars

(***************************************************************************)
(* make_heats on one entrant list, up to two calls                         *)
(***************************************************************************)
InitHeats ==
    /\ \E n \in 0..MaxEntrants : original = SubSeq(Lineup, 1, n)
    /\ entries = original
    /\ max_heat_size \in (-1)..MaxHeatSize
    /\ avg \in {59900, 60000}
    /\ std_dev = 2000
    /\ is_run \in BOOLEAN
    /\ rng_pos = 0
    /\ rng_tape = <<>>
    /\ runs = <<>>
    /\ IdleFormat
    /\ IdleMeet

\* random.seed(0): the stream starts again
RandomSeed ==
    /\ rng_pos > 0
    /\ Len(runs) < 2
    /\ rng_pos' = 0
    /\ UNCHANGED <<original, entries, max_heat_size, avg, std_dev, is_run, rng_tape, runs, fmtVars, meetVars>>

\* heats = make_heats(lst, ...): lst is the list object of the previous call
\* (fresh = FALSE) or a new list equal to the original one (fresh = TRUE)
MakeHeats(fresh) ==
    /\ Len(runs) < 2
    /\ rng_pos + DrawCount(Len(entries)) <= 2 * MaxEntrants
    /\ LET arg == IF fresh THEN original ELSE entries
       IN  \E d \in Draws(Len(arg), rng_pos, rng_tape) :
               LET r == make_heats(arg, max_heat_size, avg, std_dev, is_run, d)
               IN  /\ entries' = IF fresh THEN entries ELSE r.entries
                   /\ rng_pos' = rng_pos + Len(d)
                   /\ rng_tape' = TapeAfter(rng_pos, rng_tape, d)
                   /\ runs' = Append(runs, [arg |-> arg, pos |-> rng_pos, fresh |-> fresh,
                                            heats |-> r.heats, raised |-> r.raised])
    /\ UNCHANGED <<original, max_heat_size, avg, std_dev, is_run, fmtVars, meetVars>>

NextHeats ==
    \/ RandomSeed
    \/ \E fresh \in BOOLEAN : MakeHeats(fresh)

SpecHeats == InitHeats /\ [][NextHeats]_vars

(***************************************************************************)
(* EventDef objects                                                        *)
(*                                                                         *)
(* An EventDef object is known by an identity; its immutable fields are    *)
(* given here and its entries list is event_entries[id].  The first three  *)
(* are events of __main__ (with heat sizes that split two or three         *)
(* entrants); the last four carry the values section 7 of the spec calls   *)
(* a configuration inconsistency.                                          *)
(***************************************************************************)
EventDef ==
    [hurdles |-> [name |-> <<"1", "0", "0", " ", "a", "n", "d", " ", "1", "0", " ", "H", "u", "r", "d", "l", "e", "s">>, duration |-> 7,
                  kind |-> "Track", max_heat_size |-> 2, average |-> 20000, std_dev |-> 2000],
     blind_walk |-> [name |-> <<"B", "l", "i", "n", "d", " ", "W", "a", "l", "k">>, duration |-> 7,
                  kind |-> "Field", max_heat_size |-> 1, average |-> 30000, std_dev |-> 5000],
     random_400_2000 |-> [name |-> <<"R", "a", "n", "d", "o", "m", " ", "4", "0", "0", "-", "2", "0", "0", "0">>, duration |-> 10,
                  kind |-> "Track", max_heat_size |-> 2, average |-> 200000, std_dev |-> 120000],
     zero_duration |-> [name |-> <<"1", "0", "0", "m", " ", "R", "e", "l", "a", "y">>, duration |-> 0,
                  kind |-> "Relay", max_heat_size |-> 2, average |-> 18000, std_dev |-> 2000],
     negative_duration |-> [name |-> <<"S", "h", "o", "t", " ", "R", "e", "l", "a", "y">>, duration |-> -5,
                  kind |-> "Field Relay", max_heat_size |-> 2, average |-> 12000, std_dev |-> 4000],
     zero_heat_size |-> [name |-> <<"B", "o", "o", "t", " ", "1", "0", "0", "m">>, duration |-> 8,
                  kind |-> "Track", max_heat_size |-> 0, average |-> 40000, std_dev |-> 5000],
     negative_heat_size |-> [name |-> <<"Q", "u", "a", "d", "r", "u", "p", "l", "e", " ", "J", "u", "m", "p">>, duration |-> 8,
                  kind |-> "Field", max_heat_size |-> -1, average |-> 14000, std_dev |-> 3000]]

EventIds == DOMAIN EventDef

\* EventKind.is_run
IsRun(kind) == kind \in {"Track", "Relay"}

(***************************************************************************)
(* parse_entries                                                           *)
(***************************************************************************)
UpperChars == <<"A", "B", "C", "D", "E", "F", "G", "H", "I", "J", "K", "L", "M",
                "N", "O", "P", "Q", "R", "S", "T", "U", "V", "W", "X", "Y", "Z">>
LowerChars == <<"a", "b", "c", "d", "e", "f", "g", "h", "i", "j", "k", "l", "m",
                "n", "o", "p", "q", "r", "s", "t", "u", "v", "w", "x", "y", "z">>

\* str.lower()
Lower(s) ==
    [i \in 1..Len(s) |->
        IF \E k \in 1..26 : UpperChars[k] = s[i]
        THEN LowerChars[CHOOSE k \in 1..26 : UpperChars[k] = s[i]]
        ELSE s[i]]

\* str.strip()
RECURSIVE Strip(_)
Strip(s) ==
    IF Len(s) = 0 THEN s
    ELSE IF Head(s) = " " THEN Strip(Tail(s))
    ELSE IF s[Len(s)] = " " THEN Strip(SubSeq(s, 1, Len(s) - 1))
    ELSE s

\* str.split(sep): always at least one item
RECURSIVE Split(_, _)
Split(s, sep) ==
    IF IndexOf(s, sep) = 0 THEN <<s>>
    ELSE <<Before(s, sep)>> \o Split(After(s, sep), sep)

\* entry_map.setdefault(key, []).append(athlete)
SetDefaultAppend(entry_map, key, athlete) ==
    IF key \in DOMAIN entry_map
    THEN [entry_map EXCEPT ![key] = Append(@, athlete)]
    ELSE entry_map @@ (key :> <<athlete>>)

\* the body of `for event_name in selected_events`, over the labels left;
\* st is [entry_map, out]
RECURSIVE ParseLabels(_, _, _, _, _)
ParseLabels(selected_events, athlete_name, names, labels, st) ==
    IF Len(selected_events) = 0 THEN st
    ELSE LET event_name == Head(selected_events)
             next ==
                 IF event_name \in DOMAIN labels
                 THEN IF athlete_name \in DOMAIN names
                      THEN [st EXCEPT !.entry_map =
                                SetDefaultAppend(@, Lower(EventDef[labels[event_name]].name),
                                                 names[athlete_name])]
                      ELSE [st EXCEPT !.out = Append(@, <<"Athlete not found in name map", athlete_name>>)]
                 ELSE [st EXCEPT !.out = Append(@, <<"Event not found in event map", event_name>>)]
         IN  ParseLabels(Tail(selected_events), athlete_name, names, labels, next)

\* `for row in reader`, over the rows left
RECURSIVE ParseRows(_, _, _, _)
ParseRows(rs, names, labels, st) ==
    IF Len(rs) = 0 THEN st
    ELSE LET row == Head(rs)
             split == Split(Strip(row.events), ",")
             selected_events == [i \in 1..Len(split) |-> Lower(Strip(split[i]))]
             athlete_name == Lower(Strip(row.name))
         IN  ParseRows(Tail(rs), names, labels,
                       ParseLabels(selected_events, athlete_name, names, labels, st))

\* `for event in events`: the entries lists after the loop over the EventDefs left
RECURSIVE AssignEntries(_, _, _)
AssignEntries(evs, entry_map, lists) ==
    IF Len(evs) = 0 THEN lists
    ELSE LET event_name == Lower(EventDef[Head(evs)].name)
         IN  AssignEntries(Tail(evs), entry_map,
                 IF event_name \in DOMAIN entry_map
                 THEN [lists EXCEPT ![Head(evs)] = entry_map[event_name]]
                 ELSE lists)

\* what that loop prints
RECURSIVE NoEntriesMessages(_, _)
NoEntriesMessages(evs, entry_map) ==
    IF Len(evs) = 0 THEN <<>>
    ELSE LET event_name == Lower(EventDef[Head(evs)].name)
         IN  (IF event_name \in DOMAIN entry_map THEN <<>>
              ELSE << <<"No entries found for event", event_name>> >>)
                 \o NoEntriesMessages(Tail(evs), entry_map)

\* parse_entries(file_path, events, name_map, event_map) on the rows of the file:
\* every EventDef's entries afterwards, and what was printed
parse_entries(rs, evs, names, labels, lists) ==
    LET st == ParseRows(rs, names, labels, [entry_map |-> <<>>, out |-> <<>>])
    IN  [entries |-> AssignEntries(evs, st.entry_map, lists),
         out |-> st.out \o NoEntriesMessages(evs, st.entry_map)
                    \o << <<"Entries parsed successfully.">> >>]

MaxRows == 2          \* most rows in the entry file

\* the "Name" cells that occur: two known athletes (with case and padding to
\* normalise) and one nobody knows
NameCells == {<<"S", "e", "a", "n">>, <<" ", "l", "o", "s", "h", "a", " ">>, <<"B", "o", "b">>}

\* the "List of events" cells that occur: one label, two events, two labels of one
\* event, an unknown label before a known one
EventCells == {<<"B", "l", "i", "n", "d", " ", "W", "a", "l", "k">>, <<"b", "l", "i", "n", "d", " ", "w", "a", "l", "k", ",", " ", "H", "u", "r", "d", "l", "e", "s">>, <<"h", "u", "r", "d", "l", "e", "s", ",", "1", "0", "0", " ", "a", "n", "d", " ", "1", "0", " ", "H", "u", "r", "d", "l", "e", "s">>, <<"J", "a", "v", "e", "l", "i", "n", ",", " ", "B", "l", "i", "n", "d", " ", "W", "a", "l", "k", " ">>}

Rows == [name : NameCells, events : EventCells]

NameMap == (<<"s", "e", "a", "n">> :> SEAN) @@ (<<"l", "o", "s", "h", "a">> :> LOSHA)

EventMap == (<<"1", "0", "0", " ", "a", "n", "d", " ", "1", "0", " ", "h", "u", "r", "d", "l", "e", "s">> :> "hurdles") @@ (<<"h", "u", "r", "d", "l", "e", "s">> :> "hurdles") @@ (<<"b", "l", "i", "n", "d", " ", "w", "a", "l", "k">> :> "blind_walk")

\* the lists `events` that parse_entries is given: EventDef objects, none twice
ParsedEventLists ==
    {<<>>, <<"hurdles">>, <<"blind_walk">>, <<"hurdles", "blind_walk">>, <<"blind_walk", "hurdles">>}

InitParse ==
    /\ \E n \in 0..MaxRows : rows \in [1..n -> Rows]
    /\ events \in ParsedEventLists
    /\ event_entries = [e \in EventIds |-> <<>>]
    /\ name_map = NameMap
    /\ event_map = EventMap
    /\ stdout = <<>>
    /\ parsed = FALSE
    /\ IdleSheet
    /\ IdleFormat
    /\ IdleHeats

ParseEntries ==
    /\ ~parsed
    /\ LET r == parse_entries(rows, events, name_map, event_map, event_entries)
       IN  /\ event_entries' = r.entries
           /\ stdout' = stdout \o r.out
    /\ parsed' = TRUE
    /\ UNCHANGED <<events, rows, name_map, event_map, sheetVars, fmtVars, heatVars>>

NextParse == ParseEntries

SpecParse == InitParse /\ [][NextParse]_vars

(***************************************************************************)
(* generate_heat_sheet, as __main__ calls it                               *)
(***************************************************************************)
MeetStart == 1080          \* start_time: 18:00
BetweenEventTime == 3      \* between_event_time: timedelta(minutes=3)
MaxEvents == 3             \* longest list `events`

\* every EventDef object, in the order a list `events` keeps
AllEvents == <<"hurdles", "blind_walk", "random_400_2000", "zero_duration",
               "negative_duration", "zero_heat_size", "negative_heat_size">>

\* the subsequence of evs whose members are in chosen
RECURSIVE Choose(_, _)
Choose(evs, chosen) ==
    IF Len(evs) = 0 THEN <<>>
    ELSE (IF Head(evs) \in chosen THEN <<Head(evs)>> ELSE <<>>) \o Choose(Tail(evs), chosen)

\* outcomes of random.gauss tried here
SheetSamples == {-3000, 60125}

\* datetime.strftime("%-I:%M %p") of a time given in minutes since midnight
ClockStr(t) ==
    LET hour == (t \div 60) % 24
        minute == t % 60
    IN  IntStr(IF hour % 12 = 0 THEN 12 ELSE hour % 12)
            \o <<":", Digit(minute \div 10), Digit(minute % 10), " ">>
            \o (IF hour < 12 THEN <<"A", "M">> ELSE <<"P", "M">>)

\* the schedule step without the gap between events
NextStart_without_gap(start, duration, between) == start + duration

\* start_time += time_delta + between_event_time
NextStart(start, duration, between) == start + duration + between

InitSheet ==
    /\ \E chosen \in SUBSET EventIds :
           /\ Cardinality(chosen) <= MaxEvents
           /\ events = Choose(AllEvents, chosen)
    /\ event_entries \in [EventIds -> {<<>>, SubSeq(Lineup, 1, 2)}]
    /\ \A e \in EventIds : (\A i \in DOMAIN events : events[i] # e) => event_entries[e] = <<>>
    /\ rows = <<>> /\ name_map = NameMap /\ event_map = EventMap /\ stdout = <<>>
    /\ parsed = TRUE
    /\ start_time = MeetStart
    /\ proc_events = <<>>
    /\ pc = "main"
    /\ heat_sheet_tex = "absent"
    /\ IdleFormat
    /\ IdleHeats

\* with open("heat_sheet.tex", "w") as f: the file exists, empty, before
\* generate_heat_sheet is called
OpenOutput ==
    /\ pc = "main"
    /\ heat_sheet_tex' = "empty"
    /\ pc' = "loop"
    /\ UNCHANGED <<start_time, proc_events, events, event_entries, parseVars, fmtVars, heatVars>>

\* one iteration of `for event in events`; range() raising ends the run
HeatSheetEvent ==
    /\ pc = "loop"
    /\ Len(proc_events) < Len(events)
    /\ LET id == events[Len(proc_events) + 1]
           event == EventDef[id]
       IN  \E d \in FreshDraws(Len(event_entries[id]), SheetSamples) :
               LET r == make_heats(event_entries[id], event.max_heat_size, event.average,
                                   event.std_dev, IsRun(event.kind), d)
               IN  /\ event_entries' = [event_entries EXCEPT ![id] = r.entries]
                   /\ IF r.raised
                      THEN /\ pc' = "raised"
                           /\ UNCHANGED <<proc_events, start_time>>
                      ELSE /\ proc_events' = Append(proc_events,
                                  [name |-> event.name, time |-> ClockStr(start_time),
                                   kind |-> event.kind, heats |-> r.heats,
                                   average |-> event.average, std_dev |-> event.std_dev])
                           /\ start_time' = NextStart(start_time, event.duration, BetweenEventTime)
                           /\ pc' = "loop"
    /\ UNCHANGED <<heat_sheet_tex, events, parseVars, fmtVars, heatVars>>

\* the loop is over: the document is returned and f.write puts it in the file
WriteDocument ==
    /\ pc = "loop"
    /\ Len(proc_events) = Len(events)
    /\ heat_sheet_tex' = "document"
    /\ pc' = "written"
    /\ UNCHANGED <<start_time, proc_events, events, event_entries, parseVars, fmtVars, heatVars>>

NextSheet == OpenOutput \/ HeatSheetEvent \/ WriteDocument

SpecSheet == InitSheet /\ [][NextSheet]_vars

(***************************************************************************)
(* Properties of format_seed_time (SpecFormat)                             *)
(***************************************************************************)
Abs(x) == IF x < 0 THEN -x ELSE x

\* C10: for a timed kind the format follows the mean, not the value.  A mean below
\* 60 s gives plain seconds with two decimals (the nearest hundredth).  A mean of
\* 60 s or more gives minutes:seconds, where the minutes are floor(value / 60) and
\* the seconds are four characters wide with one decimal, never above value mod 60
\* and less than a tenth below it (truncated, not rounded), hence below 60.0; and
\* 187.36 s then reads 3:07.3.
C10_FormatByMean ==
    formatted # <<>> =>
        IF average < 60000
        THEN /\ IndexOf(formatted, ":") = 0
             /\ IndexOf(formatted, ".") = Len(formatted) - 2
             /\ IsDigits(Before(formatted, ".")) /\ IsDigits(After(formatted, "."))
             /\ Abs(ParseMark(formatted) - seed_time) <= 5
        ELSE LET minutes == Before(formatted, ":")
                 seconds == After(formatted, ":")
             IN  /\ IndexOf(formatted, ":") > 0
                 /\ IsDigits(minutes)
                 /\ ParseInt(minutes) = seed_time \div 60000
                 /\ Len(seconds) = 4 /\ seconds[3] = "."
                 /\ IsDigits(Before(seconds, ".")) /\ IsDigits(After(seconds, "."))
                 /\ ParseDecimal(seconds) <= seed_time % 60000
                 /\ seed_time % 60000 < ParseDecimal(seconds) + 100
                 /\ ParseDecimal(seconds) < 60000
                 /\ (seed_time = 187360 => formatted = <<"3", ":", "0", "7", ".", "3">>)

\* C10 witness: 187.36 s under a mean of exactly 60 s has been formatted as 3:07.3
C10_Witness ==
    /\ seed_time = 187360 /\ average = 60000
    /\ formatted = <<"3", ":", "0", "7", ".", "3">>

(***************************************************************************)
(* Properties of make_heats (SpecHeats)                                    *)
(***************************************************************************)
Runs == {runs[r] : r \in DOMAIN runs}

\* the athletes of all heats, in heat and position order
RECURSIVE Flatten(_)
Flatten(hs) == IF Len(hs) = 0 THEN <<>> ELSE Head(hs) \o Flatten(Tail(hs))

Athletes(hs) == LET flat == Flatten(hs) IN [k \in 1..Len(flat) |-> flat[k][1]]
Marks(hs) == LET flat == Flatten(hs) IN [k \in 1..Len(flat) |-> flat[k][2]]

Occurrences(s, a) == Cardinality({k \in 1..Len(s) : s[k] = a})

\* C1: for N entrants and max_heat_size M > 0 make_heats returns ceil(N / M) heats;
\* every heat but the last has M members, the last has N mod M (M when that is 0);
\* no entrants give no heats at all.
C1_PartitionShape ==
    \A r \in Runs :
        max_heat_size > 0 =>
            LET N == Len(r.arg)
                M == max_heat_size
                H == Len(r.heats)
            IN  /\ ~r.raised
                /\ H * M >= N /\ (H > 0 => (H - 1) * M < N)
                /\ (N = 0 => r.heats = <<>>)
                /\ \A h \in 1..(H - 1) : Len(r.heats[h]) = M
                /\ H > 0 => Len(r.heats[H]) = (IF N % M = 0 THEN M ELSE N % M)

\* C1 witness: three entrants in heats of at most two came out as a heat of two
\* and a heat of one
C1_Witness ==
    \E r \in Runs :
        /\ Len(r.arg) = 3 /\ max_heat_size = 2
        /\ Len(r.heats) = 2 /\ Len(r.heats[1]) = 2 /\ Len(r.heats[2]) = 1

\* C2: with max_heat_size > 0 the athletes of all heats together are the entrant
\* list as a multiset: each occurrence is in exactly one heat, none dropped or added.
C2_HeatsPermuteEntrants ==
    \A r \in Runs :
        max_heat_size > 0 =>
            /\ Len(Athletes(r.heats)) = Len(r.arg)
            /\ \A a \in {LOSHA, NICO, SEAN} :
                   Occurrences(Athletes(r.heats), a) = Occurrences(r.arg, a)

\* C2 witness: a list holding one athlete twice was dealt out in another order
C2_Witness ==
    \E r \in Runs :
        /\ max_heat_size = 2
        /\ r.arg = <<LOSHA, NICO, LOSHA>>
        /\ Athletes(r.heats) = <<NICO, LOSHA, LOSHA>>

\* C3: in every heat the marks, read back as numbers, never decrease down the heat
\* for a timed kind and never increase for a measured kind.
C3_MarksMonotone ==
    \A r \in Runs : \A h \in DOMAIN r.heats : \A k \in 1..(Len(r.heats[h]) - 1) :
        IF is_run
        THEN ParseMark(r.heats[h][k][2]) <= ParseMark(r.heats[h][k + 1][2])
        ELSE ParseMark(r.heats[h][k][2]) >= ParseMark(r.heats[h][k + 1][2])

\* C3 witness: a timed heat of two whose marks were drawn in falling order (60.125
\* then 59.875) and are listed rising, in minutes:seconds
C3_Witness ==
    /\ is_run /\ avg = 60000 /\ Len(original) = 2 /\ max_heat_size = 2
    /\ Len(runs) >= 1
    /\ rng_tape[2] = 60125 /\ rng_tape[3] = 59875
    /\ Marks(runs[1].heats) = << <<"0", ":", "5", "9", ".", "8">>, <<"1", ":", "0", "0", ".", "1">> >>

\* C7: two calls of make_heats over the same entrant list (the caller's list
\* entries, handed over both times), each made right after random.seed and with
\* the same event parameters, return identical heats: the same marks in the same
\* order and the same athlete in every heat and position.
C7_SeededRunsAgree ==
    \A i, j \in DOMAIN runs :
        (/\ runs[i].pos = 0 /\ runs[j].pos = 0
         /\ ~runs[i].fresh /\ ~runs[j].fresh) => runs[i].heats = runs[j].heats

(***************************************************************************)
(* Properties of parse_entries (SpecParse)                                 *)
(***************************************************************************)
\* the (athlete, event) pairings of the file in row order and label order, normalised
RECURSIVE Pairings(_)
Pairings(rs) ==
    IF Len(rs) = 0 THEN <<>>
    ELSE LET labels == Split(Strip(Head(rs).events), ",")
         IN  [i \in 1..Len(labels) |->
                 [athlete |-> Lower(Strip(Head(rs).name)), label |-> Lower(Strip(labels[i]))]]
                 \o Pairings(Tail(rs))

Resolvable(p) == p.label \in DOMAIN event_map /\ p.athlete \in DOMAIN name_map

\* the athletes of the resolvable pairings of EventDef e, in order
RECURSIVE ResolvedFor(_, _)
ResolvedFor(ps, e) ==
    IF Len(ps) = 0 THEN <<>>
    ELSE (IF Resolvable(Head(ps)) /\ event_map[Head(ps).label] = e
          THEN <<name_map[Head(ps).athlete]>> ELSE <<>>) \o ResolvedFor(Tail(ps), e)

MappedEvents == {event_map[l] : l \in DOMAIN event_map}

RECURSIVE KnownAthleteRows(_)
KnownAthleteRows(rs) ==
    IF Len(rs) = 0 THEN <<>>
    ELSE (IF Lower(Strip(Head(rs).name)) \in DOMAIN name_map THEN <<Head(rs)>> ELSE <<>>)
             \o KnownAthleteRows(Tail(rs))

Diagnostics == {k \in DOMAIN stdout : Len(stdout[k]) = 2 /\ stdout[k][1] # "No entries found for event"}

\* C5: a pairing whose event or athlete lookup fails is skipped with a diagnostic
\* and adds nothing to any entrant list; the batch goes on, so that every resolvable
\* pairing ends up in its event's entrant list; and the entrant lists are what they
\* would be without the rows that name an unknown athlete.
C5_FailedLookupsSkipped ==
    parsed =>
        LET ps == Pairings(rows)
        IN  /\ Cardinality(Diagnostics) = Cardinality({k \in DOMAIN ps : ~Resolvable(ps[k])})
            /\ \A e \in EventIds : \A a \in {LOSHA, NICO, SEAN} :
                   Occurrences(event_entries[e], a) <= Occurrences(ResolvedFor(ps, e), a)
            /\ \A k \in DOMAIN ps :
                   Resolvable(ps[k]) =>
                       Occurrences(event_entries[event_map[ps[k].label]], name_map[ps[k].athlete]) > 0
            /\ event_entries = parse_entries(KnownAthleteRows(rows), events, name_map, event_map,
                                             [e \in EventIds |-> <<>>]).entries

\* C6: after parse_entries the entrant list of every EventDef that is a value of
\* event_map is the sequence of the athletes of its resolved pairings, in row and
\* label order, duplicates kept.
C6_EntriesAreResolvedPairings ==
    parsed => \A e \in MappedEvents : event_entries[e] = ResolvedFor(Pairings(rows), e)

(***************************************************************************)
(* Properties of generate_heat_sheet (SpecSheet)                           *)
(***************************************************************************)
RECURSIVE StartOf(_)
\* the clock time the i-th event of the list starts at
StartOf(i) ==
    IF i = 1 THEN MeetStart
    ELSE StartOf(i - 1) + EventDef[events[i - 1]].duration + BetweenEventTime

\* "6:10 PM" read back as minutes since midnight
ClockMinutes(s) ==
    LET hour == ParseInt(Before(s, ":"))
        minute == ParseInt(SubSeq(s, IndexOf(s, ":") + 1, IndexOf(s, ":") + 2))
    IN  ((hour % 12) + (IF s[Len(s) - 1] = "P" THEN 12 ELSE 0)) * 60 + minute

\* C4: the scheduled events are the input EventDefs in input order, one each once
\* the document is written; the first starts at the initial time and each later
\* one at the previous start plus the previous duration plus the gap, whatever the
\* entrants and heats; durations 7, 7, 10 with a gap of 3 from 18:00 give 6:00 PM,
\* 6:10 PM, 6:20 PM; and if duration + gap > 0 for every event the times (all on
\* the meet day) strictly increase.
C4_Schedule ==
    /\ Len(proc_events) <= Len(events)
    /\ pc = "written" => Len(proc_events) = Len(events)
    /\ \A i \in DOMAIN proc_events :
           /\ proc_events[i].name = EventDef[events[i]].name
           /\ proc_events[i].time = ClockStr(StartOf(i))
    /\ (pc = "written" /\ events = <<"hurdles", "blind_walk", "random_400_2000">>) =>
           /\ proc_events[1].time = <<"6", ":", "0", "0", " ", "P", "M">>
           /\ proc_events[2].time = <<"6", ":", "1", "0", " ", "P", "M">>
           /\ proc_events[3].time = <<"6", ":", "2", "0", " ", "P", "M">>
    /\ (\A i \in DOMAIN events : EventDef[events[i]].duration + BetweenEventTime > 0) =>
           \A i, j \in DOMAIN proc_events :
               i < j => ClockMinutes(proc_events[i].time) < ClockMinutes(proc_events[j].time)

\* C4 witness: the three events of 7, 7 and 10 minutes, two of them with entrants
\* and one without, are written with the times 6:00 PM, 6:10 PM, 6:20 PM
C4_Witness ==
    /\ pc = "written"
    /\ events = <<"hurdles", "blind_walk", "random_400_2000">>
    /\ Len(proc_events[1].heats) = 1 /\ Len(proc_events[2].heats) = 0 /\ Len(proc_events[3].heats) = 1
    /\ proc_events[2].time = <<"6", ":", "1", "0", " ", "P", "M">>
    /\ proc_events[3].time = <<"6", ":", "2", "0", " ", "P", "M">>

\* C8: once the parser has returned, no entrant list changes any more:
\* generate_heat_sheet and make_heats leave every EventDef.entries as it was.
C8_EntriesReadOnlyAfterParse == [][parsed => event_entries' = event_entries]_vars

\* C9: no run whose configuration has an event with a duration <= 0 or a
\* max_heat_size <= 0 gets as far as a written document.
C9_BadConfigurationRejected ==
    heat_sheet_tex = "document" =>
        \A i \in DOMAIN events :
            EventDef[events[i]].duration > 0 /\ EventDef[events[i]].max_heat_size > 0

====
